---- MODULE Spec2Model ----
(***************************************************************************)
(* Model of the autoregressive decoding engine of mlx_vlm/utils.py:        *)
(* generate -> stream_generate -> generate_step, with the stopping         *)
(* criteria, the repetition context, the KV cache length and the wired     *)
(* limit scope.  One behaviour is one call of generate(); the generator    *)
(* generate_step and its consumer stream_generate are coroutines of one    *)
(* thread, so a single program counter pc says which of them runs.         *)
(***************************************************************************)
EXTENDS Integers, Sequences, FiniteSets, TLC

(* ---------------------------- bounds ----------------------------------- *)
MaxTok == 1          \* token ids are 0..MaxTok
MaxPrompt == 2       \* longest prompt, and largest repetition_context_size
MaxTokens == 3       \* largest max_tokens budget

Vocab == 0..MaxTok

\* Python Optional values: None is the empty sequence, a value x is <<x>>
None == <<>>
Some(x) == <<x>>

(* ------------------------- value domains ------------------------------- *)
\* A repetition_penalty argument: its Python type and its value.  A "str"
\* with v = 1 is a non-empty string, with v = 0 the empty string.
NonePenalty == [ty |-> "none", v |-> 0]
Penalties ==
    { NonePenalty }
    \cup { [ty |-> "float", v |-> x] : x \in {-1, 1, 2} }
    \cup { [ty |-> "int", v |-> x] : x \in {-1, 1, 2} }
    \cup { [ty |-> "str", v |-> 1] }

\* Logit vectors the model may return (the model is an external collaborator).
LogitVals == {-2, 0, 2}
Logits == [Vocab -> LogitVals]

\* Prompts of every length up to MaxPrompt; neighbouring ids differ, so the
\* part of a prompt that a slice keeps is recognisable.
Prompts == { [i \in 1..k |-> (i - 1) % (MaxTok + 1)] : k \in 1..MaxPrompt }
Sizes == {None} \cup { Some(k) : k \in 0..MaxPrompt }

\* What the prefill pass of the model returns besides logits: nothing
\* (decoder-only), cross_attention_states, or encoder_outputs.
Families == {"decoder_only", "cross_attention", "encoder_decoder"}

\* the same, with an output that holds both side states
AllFamilies == Families \cup {"both"}
HasCrossAttentionStates(fam) == fam \in {"cross_attention", "both"}
HasEncoderOutputs(fam) == fam \in {"encoder_decoder", "both"}

Range(s) == { s[i] : i \in 1..Len(s) }

(* ------------------------- pure functions ------------------------------ *)
\* Python truthiness of the repetition_penalty argument
Truthy(p) == p.ty # "none" /\ p.v # 0

\* the guard of generate_step, evaluated left to right as Python does:
\* `p and (p < 0 or not isinstance(p, float))`; str < int raises TypeError
ValidatePenalty(p) ==
    IF ~Truthy(p) THEN "ok"
    ELSE IF p.ty = "str" THEN "TypeError"
    ELSE IF p.v < 0 \/ p.ty # "float" THEN "ValueError"
    ELSE "ok"

\* Python s[-k:]
SliceLast(s, k) ==
    IF k = 0 \/ Len(s) <= k THEN s ELSE SubSeq(s, Len(s) - k + 1, Len(s))

\* the seed of the repetition context
SeedContext(ids, size) ==
    IF size # None /\ size[1] # 0 THEN SliceLast(ids, size[1]) ELSE ids

\* TrimContext keeping the oldest entries instead of the newest
TrimContextFront(ctx, size) ==
    IF size # None /\ size[1] # 0
    THEN (IF Len(ctx) > size[1] THEN SubSeq(ctx, 1, size[1]) ELSE ctx)
    ELSE ctx

\* the trim at the end of _step
TrimContext(ctx, size) ==
    IF size # None /\ size[1] # 0
    THEN (IF Len(ctx) > size[1] THEN SliceLast(ctx, size[1]) ELSE ctx)
    ELSE ctx

\* logits[:, indices]: the logits at the positions of an index array
Gather(logits, indices) == [i \in 1..Len(indices) |-> logits[indices[i]]]

\* logits[:, indices] = values: one write per position of the index array
RECURSIVE Scatter(_, _, _)
Scatter(logits, indices, values) ==
    IF indices = <<>> THEN logits
    ELSE LET k == Len(indices)
         IN [Scatter(logits, SubSeq(indices, 1, k - 1), SubSeq(values, 1, k - 1))
               EXCEPT ![indices[k]] = values[k]]

\* mx.where(x < 0, x * penalty, x / penalty); the logit values and the
\* penalties of the model are chosen so that the quotient is exact
Penalize(x, penalty) == IF x < 0 THEN x * penalty ELSE x \div penalty

\* apply_repetition_penalty updating the logits in place, token by token
RECURSIVE apply_repetition_penalty_in_place(_, _, _)
apply_repetition_penalty_in_place(logits, generated_tokens, penalty) ==
    IF generated_tokens = <<>> THEN logits
    ELSE LET k == Len(generated_tokens)
             l == apply_repetition_penalty_in_place(
                      logits, SubSeq(generated_tokens, 1, k - 1), penalty)
             t == generated_tokens[k]
         IN [l EXCEPT ![t] = Penalize(l[t], penalty)]

apply_repetition_penalty(logits, generated_tokens, penalty) ==
    IF Len(generated_tokens) > 0
    THEN LET selected_logits == Gather(logits, generated_tokens)
         IN Scatter(logits, generated_tokens,
                    [i \in DOMAIN selected_logits |->
                        Penalize(selected_logits[i], penalty)])
    ELSE logits

\* sample with the default temperature 0 and no logit_bias: arg-max, the
\* lowest index winning a tie
sample(logits) ==
    CHOOSE t \in Vocab :
        \A u \in Vocab : logits[t] > logits[u] \/ (logits[t] = logits[u] /\ t <= u)

\* StoppingCriteria.__call__
IsStop(criteria, token) == token \in Range(criteria.eos)

(* --------------------- stopping criteria objects ----------------------- *)
\* An element of the eos_tokens option: a string, resolved by the tokenizer
\* to the last id of its encoding (id), or an integer id.
StrTok(t) == [ty |-> "str", id |-> t]
IntTok(t) == [ty |-> "int", id |-> t]

\* tokenizer.stopping_criteria: a StoppingCriteria (kind "criteria") with
\* its eos_token_ids list, or a plain callable (kind "callable") accepting
\* the ids of eos.  alias says that eos_token_ids is the very list object
\* held by model.config.eos_token_id; tok that it holds a tokenizer.
Criteria(ids, alias, tok) ==
    [kind |-> "criteria", eos |-> ids, alias |-> alias, tok |-> tok]
Callable(ids) ==
    [kind |-> "callable", eos |-> ids, alias |-> FALSE, tok |-> FALSE]

\* StoppingCriteria.__init__, as load() calls it with model.config.eos_token_id
StoppingCriteriaInit(cfg) == Criteria(cfg.ids, ~cfg.isint, TRUE)

\* model.config.eos_token_id: an int or a list of ints
IntConfig(t) == [isint |-> TRUE, ids |-> <<t>>]
ListConfig(ids) == [isint |-> FALSE, ids |-> ids]

\* The options of one generate() call that configure stopping
Option(given, toks, stopping) ==
    [eos_given |-> given, eos_tokens |-> toks, stopping_criteria |-> stopping]
CallOptions ==
    { Option(FALSE, <<>>, "none"),
      Option(TRUE, <<StrTok(0)>>, "none"),
      Option(FALSE, <<>>, "criteria"),
      Option(FALSE, <<>>, "callable"),
      Option(FALSE, <<>>, "invalid") }

(* ------------------------ streaming detokenizer ------------------------ *)
\* The detokenizer lives in tokenizer_utils; it is modelled from its
\* contract.  The text of a token sequence is the sequence of its ids; the
\* text of the newest token is held back until the next token or finalize
\* fixes the boundary; a token whose id is to be skipped adds no text.
NewDetokenizer == [tokens |-> <<>>, offset |-> 0, last_segment |-> <<>>,
                   resets |-> 0, finals |-> 0]
DetokReset(d) == [NewDetokenizer EXCEPT !.resets = d.resets + 1]
DetokAddToken(d, t, skip) ==
    LET toks == IF t \in skip THEN d.tokens ELSE Append(d.tokens, t)
        upto == IF Len(toks) = 0 THEN 0 ELSE Len(toks) - 1
    IN [d EXCEPT !.tokens = toks,
                 !.last_segment = SubSeq(toks, d.offset + 1, upto),
                 !.offset = upto]
DetokFinalize(d) ==
    [d EXCEPT !.last_segment = SubSeq(d.tokens, d.offset + 1, Len(d.tokens)),
              !.offset = Len(d.tokens),
              !.finals = d.finals + 1]

(* ------------------------------ state ---------------------------------- *)
VARIABLES
    input_ids,                 \* the prompt token ids
    max_tokens,
    repetition_penalty,
    repetition_context_size,
    verbose,
    option,                    \* eos_tokens / stopping_criteria of the call
    family,                    \* the side outputs of the model's prefill pass
    skip_special_token_ids,    \* stream_generate: ids the detokenizer skips
    config_eos,                \* model.config.eos_token_id
    stopping_criteria,         \* tokenizer.stopping_criteria
    pc,                        \* the statement that runs next
    err,                       \* the exception raised, "" when none
    cache,                     \* None before make_cache, else <<length>>
    forwards,                  \* forward passes: [prefill, decode]
    sampled,                   \* the tokens sampled so far, in order
    fed,                       \* the ids fed to the model by the last pass
    kwargs,                    \* generate_step: keyword arguments of _step
    repetition_context,
    y, logprobs,               \* generate_step: token to yield, its logprobs
    next_y, next_logprobs,     \* generate_step: the token sampled ahead
    n,                         \* generate_step: loop counter
    gen,                       \* generate_step: state of the generator
    yielded,                   \* pairs generate_step has yielded so far
    clears,                    \* mx.clear_cache() calls of the loop
    sg,                        \* stream_generate locals n, token, logprobs
    detokenizer,
    detok_log,                 \* the calls made on the detokenizer, in order
    records,                   \* GenerationResults stream_generate yielded
    text, last_response,       \* generate: accumulated text, last record
    ret,                       \* what generate returned
    wired,                     \* wired limit scope: limit and stream sync
    fn_in, fn_out              \* argument and result of a function under test

vars == << input_ids, max_tokens, repetition_penalty, repetition_context_size,
           verbose, option, family, skip_special_token_ids, config_eos,
           stopping_criteria, pc, err, cache, forwards, sampled, fed, kwargs,
           repetition_context, y, logprobs, next_y, next_logprobs, n, gen,
           yielded, clears, sg, detokenizer, detok_log, records, text,
           last_response, ret, wired, fn_in, fn_out >>

inputs == << input_ids, max_tokens, repetition_penalty,
             repetition_context_size, verbose, option, family,
             skip_special_token_ids >>
gs_vars == << cache, forwards, sampled, fed, kwargs, repetition_context, y,
              logprobs, next_y, next_logprobs, n, gen, yielded, clears >>
sg_vars == << sg, detokenizer, detok_log, records >>
fn_vars == << fn_in, fn_out >>
g_vars == << text, last_response, ret >>
tok_vars == << config_eos, stopping_criteria >>

ClearEvery == 50

\* the wired limit before any scope is entered
NewWired(limit) ==
    [limit |-> limit, old_limit |-> None, synced |-> FALSE, exits |-> 0,
     events |-> <<>>]

\* no function is under test
NoCall == [op |-> "none"]

\* the locals of a session before it starts
InitLocals ==
    /\ err = ""
    /\ cache = None
    /\ forwards = [prefill |-> 0, decode |-> 0]
    /\ sampled = <<>>
    /\ fed = <<>>
    /\ kwargs = [convention |-> "unset", decoder_input_ids |-> None,
                 cross_attention_states |-> None, encoder_outputs |-> None]
    /\ repetition_context = <<>>
    /\ y = None /\ logprobs = None
    /\ next_y = None /\ next_logprobs = None
    /\ n = 0
    /\ gen = "unstarted"
    /\ yielded = 0
    /\ clears = 0
    /\ sg = [n |-> None, token |-> None, logprobs |-> None]
    /\ detokenizer = NewDetokenizer
    /\ detok_log = <<>>
    /\ records = <<>>
    /\ text = <<>>
    /\ last_response = None
    /\ ret = [kind |-> "unset"]

\* State shared by the specifications of a session: nothing has run yet.
InitRun ==
    /\ pc = "generate"
    /\ InitLocals
    /\ fn_in = NoCall
    /\ fn_out = NoCall

Init ==
    /\ input_ids \in Prompts
    /\ max_tokens \in 0..MaxTokens
    /\ repetition_penalty \in Penalties
    /\ repetition_context_size \in Sizes
    /\ verbose \in BOOLEAN
    /\ option \in CallOptions
    /\ family \in Families
    /\ skip_special_token_ids = {}
    /\ wired = NewWired("old")
    /\ config_eos = ListConfig(<<MaxTok>>)
    /\ stopping_criteria = StoppingCriteriaInit(config_eos)
    /\ InitRun

(* ------------------- StoppingCriteria operations ----------------------- *)
\* Both return [err, sc, cfg]: the exception raised ("" when none), the
\* criteria object and model.config.eos_token_id afterwards.

\* tokenizer.stopping_criteria.add_eos_token_ids(toks), toks a list
add_eos_token_ids(sc, cfg, toks) ==
    IF sc.kind = "callable"
    THEN [err |-> "AttributeError", sc |-> sc, cfg |-> cfg]
    ELSE IF ~sc.tok
    THEN [err |-> "ValueError", sc |-> sc, cfg |-> cfg]
    ELSE IF \E i \in 1..Len(toks) : toks[i].ty = "int"
    THEN [err |-> "TypeError", sc |-> sc, cfg |-> cfg]
    ELSE LET ids == sc.eos \o [i \in 1..Len(toks) |-> toks[i].id]
         IN [err |-> "",
             sc |-> [sc EXCEPT !.eos = ids],
             cfg |-> IF sc.alias THEN [cfg EXCEPT !.ids = ids] ELSE cfg]

\* tokenizer.stopping_criteria.reset(model.config.eos_token_id)
reset(sc, cfg) ==
    IF sc.kind = "callable"
    THEN [err |-> "AttributeError", sc |-> sc, cfg |-> cfg]
    ELSE [err |-> "",
          sc |-> IF sc.eos # cfg.ids
                 THEN [sc EXCEPT !.eos = cfg.ids, !.alias = ~cfg.isint]
                 ELSE sc,
          cfg |-> cfg]

\* the stopping criteria a caller may pass as stopping_criteria
CustomCriteria == Criteria(<<0>>, FALSE, FALSE)
CustomCallable == Callable(<<0>>)

\* the stopping set-up at the head of generate()
ConfigureStopping(sc, cfg, opt) ==
    IF opt.eos_given
    THEN add_eos_token_ids(sc, cfg, opt.eos_tokens)
    ELSE IF opt.stopping_criteria # "none"
    THEN (IF opt.stopping_criteria = "criteria"
          THEN [err |-> "", sc |-> CustomCriteria, cfg |-> cfg]
          ELSE IF opt.stopping_criteria = "callable"
          THEN [err |-> "", sc |-> CustomCallable, cfg |-> cfg]
          ELSE [err |-> "ValueError", sc |-> sc, cfg |-> cfg])
    ELSE reset(sc, cfg)

(* ----------------------------- generate -------------------------------- *)
\* generate(): the head of the function up to the call of stream_generate
GenerateCall ==
    /\ pc = "generate"
    /\ LET r == ConfigureStopping(stopping_criteria, config_eos, option)
       IN /\ stopping_criteria' = r.sc
          /\ config_eos' = r.cfg
          /\ err' = r.err
          /\ pc' = IF r.err = "" THEN "stream_generate" ELSE "raised"
    /\ UNCHANGED << fn_vars, inputs, gs_vars, sg_vars, g_vars, wired >>

(* ----------------------------- wired_limit ----------------------------- *)
\* entry of the scope: old_limit = mx.set_wired_limit(max_rec_size)
\* mx.set_wired_limit(limit), which returns the limit it replaces, and
\* mx.synchronize(stream), as entries of the device's event log
SetWiredLimit(limit, previous) ==
    [op |-> "set_wired_limit", value |-> limit, previous |-> previous]
Synchronize == [op |-> "synchronize", value |-> "generation_stream",
                previous |-> "generation_stream"]

WiredEnter(w) ==
    [w EXCEPT !.limit = "max", !.old_limit = Some(w.limit), !.synced = FALSE,
              !.events = Append(@, SetWiredLimit("max", w.limit))]

\* WiredExit restoring the limit before the streams are synchronized
WiredExitUnsynced(w) ==
    [w EXCEPT !.limit = w.old_limit[1], !.synced = TRUE, !.exits = @ + 1,
              !.events = @ \o <<SetWiredLimit(w.old_limit[1], w.limit),
                                 Synchronize>>]

\* exit of the scope, the finally clause: synchronize every stream passed
\* in, then mx.set_wired_limit(old_limit)
WiredExit(w) ==
    [w EXCEPT !.limit = w.old_limit[1], !.synced = TRUE, !.exits = @ + 1,
              !.events = @ \o <<Synchronize,
                                 SetWiredLimit(w.old_limit[1], w.limit)>>]

(* -------------------------- stream_generate ---------------------------- *)
\* StreamEnter without the call of detokenizer.reset()
StreamEnterNoReset ==
    /\ pc = "stream_generate"
    /\ wired' = WiredEnter(wired)
    /\ gen' = "running"
    /\ pc' = "validate"
    /\ UNCHANGED << fn_vars, inputs, tok_vars, err, cache, forwards, sampled, fed, kwargs,
                    repetition_context, y, logprobs, next_y, next_logprobs, n,
                    yielded, clears, sg, detokenizer, detok_log,
                    records, g_vars >>

\* entry of the wired_limit scope, detokenizer.reset(), and the first
\* next() on generate_step, which starts the body of the generator
StreamEnter ==
    /\ pc = "stream_generate"
    /\ wired' = WiredEnter(wired)
    /\ detokenizer' = DetokReset(detokenizer)
    /\ detok_log' = Append(detok_log, [op |-> "reset", token |-> None])
    /\ gen' = "running"
    /\ pc' = "validate"
    /\ UNCHANGED << fn_vars, inputs, tok_vars, err, cache, forwards, sampled, fed, kwargs,
                    repetition_context, y, logprobs, next_y, next_logprobs, n,
                    yielded, clears, sg,
                    records, g_vars >>

(* --------------------------- generate_step ----------------------------- *)
\* the repetition_penalty check
ValidateStep ==
    /\ pc = "validate"
    /\ LET r == ValidatePenalty(repetition_penalty)
       IN /\ err' = IF r = "ok" THEN "" ELSE r
          /\ pc' = IF r = "ok" THEN "make_cache" ELSE "unwind"
          /\ gen' = IF r = "ok" THEN "running" ELSE "raised"
    /\ UNCHANGED << fn_vars, inputs, tok_vars, cache, forwards, sampled, fed, kwargs,
                    repetition_context, y, logprobs, next_y, next_logprobs, n, yielded, clears,
                    sg_vars, g_vars, wired >>

\* creation of the KV cache and seeding of the repetition context
MakeCache ==
    /\ pc = "make_cache"
    /\ cache' = Some(0)
    /\ repetition_context' = SeedContext(input_ids, repetition_context_size)
    /\ pc' = "prefill"
    /\ UNCHANGED << fn_vars, inputs, tok_vars, err, forwards, sampled, fed, kwargs, y, logprobs,
                    next_y,
                    next_logprobs, n, gen, yielded, clears, sg_vars, g_vars,
                    wired >>

\* the keyword arguments generate_step keeps for _step, chosen from the
\* output of the prefill pass
\* PrefillKwargs testing encoder_outputs before cross_attention_states
PrefillKwargsEncoderFirst(fam, first) ==
    IF HasEncoderOutputs(fam)
    THEN [convention |-> "encoder_decoder", decoder_input_ids |-> first,
          cross_attention_states |-> None, encoder_outputs |-> Some(1)]
    ELSE IF HasCrossAttentionStates(fam)
    THEN [convention |-> "cross_attention", decoder_input_ids |-> None,
          cross_attention_states |-> Some(1), encoder_outputs |-> None]
    ELSE [convention |-> "decoder_only", decoder_input_ids |-> None,
          cross_attention_states |-> None, encoder_outputs |-> None]

\* a side state is named by the ordinal of the forward pass that made it
PrefillKwargs(fam, first) ==
    IF HasCrossAttentionStates(fam)
    THEN [convention |-> "cross_attention", decoder_input_ids |-> None,
          cross_attention_states |-> Some(1), encoder_outputs |-> None]
    ELSE IF HasEncoderOutputs(fam)
    THEN [convention |-> "encoder_decoder", decoder_input_ids |-> first,
          cross_attention_states |-> None, encoder_outputs |-> Some(1)]
    ELSE [convention |-> "decoder_only", decoder_input_ids |-> None,
          cross_attention_states |-> None, encoder_outputs |-> None]

\* the forward pass over the whole prompt and the first sample; logprobs
\* are named by the ordinal of the forward pass whose logits they normalise
Prefill ==
    /\ pc = "prefill"
    /\ \E logits \in Logits :
          /\ y' = Some(sample(logits))
          /\ sampled' = Append(sampled, sample(logits))
          /\ logprobs' = Some(1)
    /\ kwargs' = PrefillKwargs(family, y')
    /\ fed' = input_ids
    /\ cache' = Some(cache[1] + Len(fed'))
    /\ forwards' = [forwards EXCEPT !.prefill = @ + 1]
    /\ n' = 0
    /\ pc' = "loop"
    /\ UNCHANGED << fn_vars, inputs, tok_vars, err, repetition_context, next_y,
                    next_logprobs, gen, yielded, clears, sg_vars, g_vars,
                    wired >>

\* the token _step samples from logits and the context it leaves
StepToken(logits, ctx, penalty) ==
    IF Truthy(penalty)
    THEN sample(apply_repetition_penalty(logits, ctx, penalty.v))
    ELSE sample(logits)
StepContext(ctx, token, penalty, size) ==
    TrimContext(IF Truthy(penalty) THEN Append(ctx, token) ELSE ctx, size)

\* _step(y): one forward pass over the single token y with the session's
\* cache, the penalty, the sample and the update of the context
StepCall ==
    /\ \E logits \in Logits :
          LET t == StepToken(logits, repetition_context, repetition_penalty)
          IN /\ next_y' = Some(t)
             /\ sampled' = Append(sampled, t)
             /\ repetition_context' =
                   StepContext(repetition_context, t, repetition_penalty,
                               repetition_context_size)
    /\ next_logprobs' = Some(forwards.prefill + forwards.decode + 1)
    /\ fed' = IF kwargs.decoder_input_ids # None THEN kwargs.decoder_input_ids
                                                 ELSE y
    /\ cache' = Some(cache[1] + Len(fed'))
    /\ forwards' = [forwards EXCEPT !.decode = @ + 1]
    /\ kwargs' = IF kwargs.decoder_input_ids # None
                 THEN [kwargs EXCEPT !.decoder_input_ids = next_y']
                 ELSE kwargs
    /\ pc' = "yield"
    /\ UNCHANGED << fn_vars, inputs, tok_vars, err, y, logprobs, n, gen, yielded,
                    clears, sg_vars, g_vars, wired >>

\* DecodeStep with the forward pass outside the budget test
DecodeStepUnguarded ==
    /\ pc = "loop"
    /\ StepCall

\* one pass of the loop with n != max_tokens, up to the yield
DecodeStep ==
    /\ pc = "loop"
    /\ n # max_tokens
    /\ StepCall

\* YieldToken yielding the pair sampled ahead instead of the pending one
YieldTokenAhead ==
    /\ pc = "yield"
    /\ yielded' = yielded + 1
    /\ sg' = [n |-> Some(yielded), token |-> next_y, logprobs |-> next_logprobs]
    /\ gen' = "suspended"
    /\ pc' = "stop_check"
    /\ UNCHANGED << fn_vars, inputs, tok_vars, err, cache, forwards, sampled, fed, kwargs,
                    repetition_context, y, logprobs, next_y, next_logprobs, n,
                    clears, detokenizer, detok_log,
                    records, g_vars, wired >>

\* `yield y.item(), logprobs`: the pair reaches the for loop of
\* stream_generate, whose enumerate index is the count of earlier pairs
YieldToken ==
    /\ pc = "yield"
    /\ yielded' = yielded + 1
    /\ sg' = [n |-> Some(yielded), token |-> y, logprobs |-> logprobs]
    /\ gen' = "suspended"
    /\ pc' = "stop_check"
    /\ UNCHANGED << fn_vars, inputs, tok_vars, err, cache, forwards, sampled, fed, kwargs,
                    repetition_context, y, logprobs, next_y, next_logprobs, n,
                    clears, detokenizer, detok_log,
                    records, g_vars, wired >>

\* ResumeStep testing the counter before it is incremented
ResumeStepClearFirst ==
    /\ pc = "resume"
    /\ y' = next_y
    /\ logprobs' = next_logprobs
    /\ IF n = max_tokens
       THEN /\ pc' = "finalize"
            /\ gen' = "exhausted"
            /\ UNCHANGED << n, clears >>
       ELSE /\ n' = n + 1
            /\ clears' = IF n % ClearEvery = 0 THEN clears + 1 ELSE clears
            /\ gen' = "running"
            /\ pc' = "loop"
    /\ UNCHANGED << fn_vars, inputs, tok_vars, err, cache, forwards, sampled, fed, kwargs,
                    repetition_context, next_y, next_logprobs, yielded,
                    sg_vars, g_vars, wired >>

\* generate_step resumed after its yield: the rest of the loop body
ResumeStep ==
    /\ pc = "resume"
    /\ y' = next_y
    /\ logprobs' = next_logprobs
    /\ IF n = max_tokens
       THEN /\ pc' = "finalize"
            /\ gen' = "exhausted"
            /\ UNCHANGED << n, clears >>
       ELSE /\ n' = n + 1
            /\ clears' = IF (n + 1) % ClearEvery = 0 THEN clears + 1 ELSE clears
            /\ gen' = "running"
            /\ pc' = "loop"
    /\ UNCHANGED << fn_vars, inputs, tok_vars, err, cache, forwards, sampled, fed, kwargs,
                    repetition_context, next_y, next_logprobs, yielded,
                    sg_vars, g_vars, wired >>

\* LoopExit with the budget test off by one: the loop ends one token early
LoopExitEarly ==
    /\ pc = "loop"
    /\ n + 1 >= max_tokens
    /\ gen' = "exhausted"
    /\ pc' = "finalize"
    /\ UNCHANGED << fn_vars, inputs, tok_vars, err, cache, forwards, sampled, fed, kwargs,
                    repetition_context, y, logprobs, next_y, next_logprobs, n,
                    yielded, clears,
                    sg_vars, g_vars, wired >>

\* the pass of the loop with n == max_tokens: break; the generator is
\* exhausted and the for loop of stream_generate ends
LoopExit ==
    /\ pc = "loop"
    /\ n = max_tokens
    /\ gen' = "exhausted"
    /\ pc' = "finalize"
    /\ UNCHANGED << fn_vars, inputs, tok_vars, err, cache, forwards, sampled, fed, kwargs,
                    repetition_context, y, logprobs, next_y, next_logprobs, n,
                    yielded, clears,
                    sg_vars, g_vars, wired >>

(* ---------------------- stream_generate, loop body --------------------- *)
\* StopCheck with the test dropped: every token goes on to the detokenizer
StopCheckNever ==
    /\ pc = "stop_check"
    /\ pc' = "add_token"
    /\ UNCHANGED << fn_vars, inputs, tok_vars, err, gs_vars, sg_vars, g_vars, wired >>

StopCheck ==
    /\ pc = "stop_check"
    /\ pc' = IF IsStop(stopping_criteria, sg.token[1]) THEN "finalize"
                                                      ELSE "add_token"
    /\ UNCHANGED << fn_vars, inputs, tok_vars, err, gs_vars, sg_vars, g_vars, wired >>

AddToken ==
    /\ pc = "add_token"
    /\ detokenizer' =
          DetokAddToken(detokenizer, sg.token[1], skip_special_token_ids)
    /\ detok_log' = Append(detok_log, [op |-> "add_token", token |-> sg.token])
    /\ pc' = "yield_result"
    /\ UNCHANGED << fn_vars, inputs, tok_vars, err, gs_vars, sg, records, g_vars, wired >>

\* Result with generation_tokens = n instead of n + 1
ResultOffByOne(kind, d, s, ids) ==
    [kind |-> kind,
     text |-> d.last_segment,
     token |-> s.token[1],
     logprobs |-> s.logprobs[1],
     prompt_tokens |-> Len(ids),
     generation_tokens |-> s.n[1]]

\* the GenerationResult built from the locals of stream_generate
Result(kind, d, s, ids) ==
    [kind |-> kind,
     text |-> d.last_segment,
     token |-> s.token[1],
     logprobs |-> s.logprobs[1],
     prompt_tokens |-> Len(ids),
     generation_tokens |-> s.n[1] + 1]

\* the yield of a step record, and the body of the for loop of generate()
\* that consumes it
YieldResult ==
    /\ pc = "yield_result"
    /\ LET r == Result("step", detokenizer, sg, input_ids)
       IN /\ records' = Append(records, r)
          /\ text' = text \o r.text
          /\ last_response' = Some(r)
    /\ pc' = "resume"
    /\ UNCHANGED << fn_vars, inputs, tok_vars, err, gs_vars, sg, detokenizer, detok_log, ret, wired >>

\* Finalize with a finalize() that flushes nothing
FinalizeNoFlush ==
    /\ pc = "finalize"
    /\ detok_log' = Append(detok_log, [op |-> "finalize", token |-> None])
    /\ pc' = "yield_final"
    /\ UNCHANGED << fn_vars, inputs, tok_vars, err, gs_vars, sg, detokenizer, records,
                    g_vars, wired >>

Finalize ==
    /\ pc = "finalize"
    /\ detokenizer' = DetokFinalize(detokenizer)
    /\ detok_log' = Append(detok_log, [op |-> "finalize", token |-> None])
    /\ pc' = "yield_final"
    /\ UNCHANGED << fn_vars, inputs, tok_vars, err, gs_vars, sg, records, g_vars, wired >>

\* the trailing yield; token, logprobs and n are unbound locals when the
\* for loop never ran
YieldFinal ==
    /\ pc = "yield_final"
    /\ IF sg.token = None
       THEN /\ err' = "UnboundLocalError"
            /\ pc' = "unwind"
            /\ UNCHANGED << records, g_vars >>
       ELSE /\ LET r == Result("final", detokenizer, sg, input_ids)
               IN /\ records' = Append(records, r)
                  /\ text' = text \o r.text
                  /\ last_response' = Some(r)
            /\ pc' = "cleanup"
            /\ UNCHANGED << err, ret >>
    /\ UNCHANGED << fn_vars, inputs, tok_vars, gs_vars, sg, detokenizer, detok_log, wired >>

\* mx.clear_cache() and the normal exit of the wired_limit scope
Cleanup ==
    /\ pc = "cleanup"
    /\ wired' = WiredExit(wired)
    /\ pc' = "return"
    /\ UNCHANGED << fn_vars, inputs, tok_vars, err, gs_vars, sg_vars, g_vars >>

\* an exception leaving the wired_limit scope, and then generate()
Unwind ==
    /\ pc = "unwind"
    /\ wired' = WiredExit(wired)
    /\ pc' = "raised"
    /\ UNCHANGED << fn_vars, inputs, tok_vars, err, gs_vars, sg_vars, g_vars >>

(* ------------------------- generate, the end --------------------------- *)
UsageStats(r) ==
    [input_tokens |-> r.prompt_tokens,
     output_tokens |-> r.generation_tokens,
     total_tokens |-> r.prompt_tokens + r.generation_tokens]

GenerateReturn ==
    /\ pc = "return"
    /\ ret' = IF verbose /\ Len(text) = 0
              THEN [kind |-> "none"]
              ELSE [kind |-> "pair", text |-> text,
                    usage_stats |-> UsageStats(last_response[1])]
    /\ pc' = "done"
    /\ UNCHANGED << fn_vars, inputs, tok_vars, err, gs_vars, sg_vars, text,
                    last_response, wired >>

Next ==
    \/ GenerateCall
    \/ StreamEnter
    \/ ValidateStep
    \/ MakeCache
    \/ Prefill
    \/ DecodeStep
    \/ YieldToken
    \/ ResumeStep
    \/ LoopExit
    \/ StopCheck
    \/ AddToken
    \/ YieldResult
    \/ Finalize
    \/ YieldFinal
    \/ Cleanup
    \/ Unwind
    \/ GenerateReturn

Spec == Init /\ [][Next]_vars

(* ======================================================================= *)
(*                               Properties                                *)
(* ======================================================================= *)
\* records of kind "step" among the first k records
StepCount(k) == Cardinality({ i \in 1..k : records[i].kind = "step" })
FinalCount == Cardinality({ i \in 1..Len(records) : records[i].kind = "final" })

\* the for loop of stream_generate was left by `break` on a stop token
Stopped ==
    /\ sg.token # None
    /\ pc \notin {"stop_check", "add_token", "yield_result", "resume", "loop",
                  "yield"}
    /\ IsStop(stopping_criteria, sg.token[1])

\* the statements after the for loop of stream_generate
AfterLoop == {"finalize", "yield_final", "cleanup", "return", "done", "unwind",
              "raised"}

\* the text of all records, in order
RECURSIVE ConcatText(_)
ConcatText(rs) ==
    IF rs = <<>> THEN <<>> ELSE ConcatText(SubSeq(rs, 1, Len(rs) - 1)) \o rs[Len(rs)].text

\* C1: generate_step never yields more than max_tokens pairs, is exhausted
\* only after exactly max_tokens pairs, and at the head of its loop it ends
\* exactly when max_tokens pairs have been yielded, whatever the tokens are.
C1_YieldsExactlyMaxTokens ==
    /\ yielded <= max_tokens
    /\ (gen = "exhausted" => yielded = max_tokens)
    /\ (pc = "loop" => ((ENABLED LoopExit) <=> yielded = max_tokens))
    /\ (pc = "loop" => ((ENABLED DecodeStep) <=> yielded < max_tokens))

\* a run to exhaustion of the largest budget in which a token equal to the
\* model's configured EOS id was yielded and passed on
C1_Witness ==
    /\ gen = "exhausted"
    /\ max_tokens = MaxTokens
    /\ yielded = MaxTokens
    /\ \E i \in 1..Len(records) : records[i].token \in Range(config_eos.ids)

\* C2: a token accepted by the stopping criteria never reaches the
\* detokenizer, a text delta or a step record; the stop check of a token
\* comes before its detokenization and its record; and once the k-th token
\* has stopped the loop there are exactly k-1 step records and no further
\* token is pulled.
C2_StopTokenNeverEmitted ==
    /\ \A i \in 1..Len(detokenizer.tokens) :
          ~IsStop(stopping_criteria, detokenizer.tokens[i])
    /\ \A i \in 1..Len(records) :
          /\ \A j \in 1..Len(records[i].text) :
                ~IsStop(stopping_criteria, records[i].text[j])
          /\ records[i].kind = "step"
                => ~IsStop(stopping_criteria, records[i].token)
    /\ (pc \in {"add_token", "yield_result"}
          => ~IsStop(stopping_criteria, sg.token[1]))
    /\ (Stopped => /\ StepCount(Len(records)) = yielded - 1
                   /\ sg.n[1] = yielded - 1
                   /\ gen = "suspended")

\* a session stopped by its third token, after two step records
C2_Witness ==
    /\ pc = "done"
    /\ Stopped
    /\ yielded = 3
    /\ StepCount(Len(records)) = 2
    /\ Len(text) = 2

\* C3: when the k-th token stops the session, the finalize record reports
\* generation_tokens = k-1 and generate reports output_tokens = k-1.
C3_StopCountBeforeStopToken ==
    Stopped =>
      /\ \A i \in 1..Len(records) :
            records[i].kind = "final" => records[i].generation_tokens = yielded - 1
      /\ ret.kind = "pair" => ret.usage_stats.output_tokens = yielded - 1

\* C4: a session that no token stops yields max_tokens step records and
\* then one finalize record; the i-th step record carries
\* generation_tokens = i, the finalize record max_tokens, and every record
\* the prompt length.
C4_RecordsOfExhaustedRun ==
    /\ \A i \in 1..Len(records) :
          /\ records[i].prompt_tokens = Len(input_ids)
          /\ records[i].kind = "step" => records[i].generation_tokens = i
    /\ (gen = "exhausted" /\ max_tokens >= 1 /\ pc \in {"cleanup", "return", "done"})
          => /\ Len(records) = max_tokens + 1
             /\ \A i \in 1..max_tokens : records[i].kind = "step"
             /\ records[max_tokens + 1].kind = "final"
             /\ records[max_tokens + 1].generation_tokens = max_tokens
    /\ (gen = "exhausted" /\ max_tokens >= 1 /\ pc \in {"finalize", "yield_final"})
          => /\ Len(records) = max_tokens
             /\ StepCount(Len(records)) = max_tokens

C4_Witness ==
    /\ pc = "done"
    /\ gen = "exhausted"
    /\ max_tokens = MaxTokens
    /\ Len(input_ids) = MaxPrompt
    /\ Len(records) = MaxTokens + 1

\* C5: a session that ends by exhausting its budget (max_tokens >= 0) or on
\* a stop token ends without an error, with exactly one finalize record,
\* which is the last record.
C5_EndsWithOneFinalRecord ==
    (pc \in {"unwind", "raised", "cleanup", "return", "done"}
        /\ (gen = "exhausted" \/ Stopped))
      => /\ err = ""
         /\ FinalCount = 1
         /\ records[Len(records)].kind = "final"

\* C6: generate returns (text, usage_stats) on every path that returns:
\* text is the concatenation of the text of all records, and usage_stats
\* is taken from the last record, with total = input + output.
C6_ReturnsTextAndUsage ==
    pc = "done" =>
      /\ ret.kind = "pair"
      /\ ret.text = ConcatText(records)
      /\ ret.usage_stats.input_tokens = records[Len(records)].prompt_tokens
      /\ ret.usage_stats.output_tokens = records[Len(records)].generation_tokens
      /\ ret.usage_stats.total_tokens =
            ret.usage_stats.input_tokens + ret.usage_stats.output_tokens

\* C7: the KV cache holds the prompt length after prefill and one more
\* position per decode pass, which feeds the model one token, that is
\* L + k after k decode passes, k <= max_tokens; there is one prefill pass;
\* a run to exhaustion has made max_tokens decode passes; and the length
\* never decreases.
C7_CacheState ==
    /\ forwards.prefill <= 1
    /\ forwards.decode <= max_tokens
    /\ (forwards.decode > 0 => forwards.prefill = 1)
    /\ (cache # None =>
          cache[1] = forwards.prefill * Len(input_ids) + forwards.decode)
    /\ (pc \notin {"generate", "stream_generate", "validate", "make_cache",
                   "prefill", "unwind", "raised"}
          => /\ forwards.prefill = 1
             /\ forwards.decode \in {yielded, yielded + 1}
             /\ cache[1] = Len(input_ids) + forwards.decode)
    /\ (pc = "yield" => fed = y /\ Len(fed) = 1)
    /\ (gen = "exhausted"
          => /\ forwards = [prefill |-> 1, decode |-> max_tokens]
             /\ cache = Some(Len(input_ids) + max_tokens))
C7_CacheGrows ==
    cache # None => (cache' # None /\ cache'[1] >= cache[1])
C7_CacheLength == []C7_CacheState /\ [][C7_CacheGrows]_vars

C7_Witness ==
    /\ gen = "exhausted"
    /\ max_tokens = MaxTokens
    /\ Len(input_ids) = MaxPrompt
    /\ cache = Some(MaxPrompt + MaxTokens)

\* C8: with repetition_context_size set (a positive size: the code tests
\* `if repetition_context_size`), the context never holds more than that
\* many ids, it is seeded with the last that-many prompt ids, and a decode
\* step with a penalty leaves the last that-many elements of the previous
\* context followed by the newly sampled token.
SizeSet == repetition_context_size # None /\ repetition_context_size[1] > 0
LastK(seq, k) ==
    LET m == IF Len(seq) < k THEN Len(seq) ELSE k
    IN [i \in 1..m |-> seq[Len(seq) - m + i]]
C8_ContextBounded ==
    (SizeSet /\ cache # None) =>
      /\ Len(repetition_context) <= repetition_context_size[1]
      /\ (pc = "prefill" =>
            repetition_context = LastK(input_ids, repetition_context_size[1]))
C8_ContextStep ==
    (SizeSet /\ Truthy(repetition_penalty) /\ pc = "loop" /\ pc' = "yield") =>
      repetition_context' =
        LastK(Append(repetition_context, next_y'[1]), repetition_context_size[1])
Validated ==
    /\ pc \notin {"generate", "stream_generate", "validate"}
    /\ ~(pc = "raised" /\ wired.exits = 0)

\* C9: a negative or non-numeric repetition_penalty is rejected with
\* ValueError, and when it is no cache exists, no forward pass has run and
\* no token has been yielded.
C9_InvalidPenaltyRejected ==
    (Validated /\ (repetition_penalty.ty = "str"
                   \/ (repetition_penalty.ty \in {"int", "float"}
                       /\ repetition_penalty.v < 0)))
      => /\ err = "ValueError"
         /\ cache = None
         /\ forwards = [prefill |-> 0, decode |-> 0]
         /\ yielded = 0

\* C10: every numeric repetition_penalty > 0, int or float, passes the
\* check of generate_step.
C10_PositivePenaltyAccepted ==
    (Validated /\ repetition_penalty.ty \in {"int", "float"}
               /\ repetition_penalty.v > 0)
      => gen # "raised"

(* ======================================================================= *)
(*            apply_repetition_penalty as a function under test            *)
(* ======================================================================= *)
\* a session that is never started: the state around a function under test
InitIdle ==
    /\ input_ids = <<0>>
    /\ max_tokens = 0
    /\ repetition_penalty = NonePenalty
    /\ repetition_context_size = None
    /\ verbose = FALSE
    /\ option = Option(FALSE, <<>>, "none")
    /\ family = "decoder_only"
    /\ skip_special_token_ids = {}
    /\ wired = NewWired("old")
    /\ InitLocals

\* the tokenizer as load() leaves it
InitLoaded ==
    /\ config_eos = ListConfig(<<MaxTok>>)
    /\ stopping_criteria = StoppingCriteriaInit(config_eos)

session_vars_but_tok == << inputs, err, gs_vars, sg_vars, g_vars, wired >>
session_vars == << session_vars_but_tok, tok_vars >>

\* the contexts and penalties generate_step can pass to the filter
Contexts == UNION { [1..k -> Vocab] : k \in 0..(MaxPrompt + 1) }
ValidPenalties == { q.v : q \in { r \in Penalties : ValidatePenalty(r) = "ok" /\ Truthy(r) } }

InitPenalty ==
    /\ InitIdle
    /\ InitLoaded
    /\ pc = "penalty"
    /\ \E l \in Logits, c \in Contexts, q \in ValidPenalties :
          fn_in = [op |-> "apply_repetition_penalty", logits |-> l,
                   generated_tokens |-> c, penalty |-> q]
    /\ fn_out = NoCall

ApplyPenalty ==
    /\ pc = "penalty"
    /\ fn_out' = [op |-> "apply_repetition_penalty",
                  logits |-> apply_repetition_penalty(
                                fn_in.logits, fn_in.generated_tokens, fn_in.penalty)]
    /\ pc' = "penalty_done"
    /\ UNCHANGED << fn_in, session_vars >>

NextPenalty == ApplyPenalty

SpecPenalty == InitPenalty /\ [][NextPenalty]_vars

\* C11: apply_repetition_penalty changes exactly the logits whose index is
\* in the context, x to x*p when x < 0 and to x/p otherwise, once per id
\* however often the id occurs; with an empty context, or with p = 1, the
\* logits are unchanged.
C11_PenaltyOncePerContextId ==
    pc = "penalty_done" =>
      /\ \A t \in Vocab :
            fn_out.logits[t] =
               IF \E i \in 1..Len(fn_in.generated_tokens) :
                     fn_in.generated_tokens[i] = t
               THEN (IF fn_in.logits[t] < 0
                     THEN fn_in.logits[t] * fn_in.penalty
                     ELSE fn_in.logits[t] \div fn_in.penalty)
               ELSE fn_in.logits[t]
      /\ (fn_in.generated_tokens = <<>> \/ fn_in.penalty = 1)
            => fn_out.logits = fn_in.logits

\* an id twice in the context with a positive logit, penalty 2, and an id
\* outside the context
C11_Witness ==
    /\ pc = "penalty_done"
    /\ fn_in.penalty = 2
    /\ fn_in.generated_tokens = <<0, 0>>
    /\ fn_in.logits[0] = 2
    /\ fn_out.logits[0] = 1
    /\ fn_out.logits[1] = fn_in.logits[1]

(* ======================================================================= *)
(*                 StoppingCriteria as an object under test                *)
(* ======================================================================= *)
\* longest eos_token_ids list the model lets add_eos_token_ids build
MaxEos == 3

\* the argument of reset / add_eos_token_ids: None, an int, a str or a list
Arg(form, toks) == [form |-> form, toks |-> toks]
NoArg == Arg("none", <<>>)
Ids(toks) == [i \in 1..Len(toks) |-> toks[i].id]

\* tokenizer.eos_token_ids, an attribute of the tokenizer that the source
\* reads next to, and apart from, model.config.eos_token_id
TokenizerEos == <<0>>

\* StoppingCriteria.reset(eos_token_ids=None)
ResetArg(sc, cfg, arg) ==
    IF arg.form = "none" /\ ~sc.tok
    THEN [err |-> "AttributeError", sc |-> sc, cfg |-> cfg]
    ELSE LET eos_token_ids == IF arg.form = "none" THEN TokenizerEos
                              ELSE Ids(arg.toks)
         IN [err |-> "",
             sc |-> IF sc.eos # eos_token_ids
                    THEN [sc EXCEPT !.eos = eos_token_ids, !.alias = FALSE]
                    ELSE sc,
             cfg |-> cfg]

\* StoppingCriteria.add_eos_token_ids(new_eos_token_ids=None)
AddEosArg(sc, cfg, arg) ==
    IF arg.form = "none"
    THEN [err |-> "", sc |-> sc, cfg |-> cfg]
    ELSE IF ~sc.tok
    THEN [err |-> "ValueError", sc |-> sc, cfg |-> cfg]
    ELSE IF arg.form = "int"
    THEN [err |-> "TypeError", sc |-> sc, cfg |-> cfg]
    ELSE add_eos_token_ids(sc, cfg, arg.toks)

Toks == { StrTok(t) : t \in Vocab } \cup { IntTok(t) : t \in Vocab }
ResetArgs ==
    {NoArg} \cup { Arg("int", <<IntTok(t)>>) : t \in Vocab }
            \cup { Arg("list", [i \in 1..k |-> IntTok(f[i])]) :
                      f \in [1..2 -> Vocab], k \in 0..2 }
AddArgs ==
    {NoArg} \cup { Arg("int", <<IntTok(t)>>) : t \in Vocab }
            \cup { Arg("str", <<StrTok(t)>>) : t \in Vocab }
            \cup { Arg("list", [i \in 1..k |-> f[i]]) :
                      f \in [1..2 -> Toks], k \in 0..2 }

InitStop ==
    /\ InitIdle
    /\ pc = "criteria"
    /\ config_eos \in { IntConfig(t) : t \in Vocab }
                        \cup { ListConfig(<<t>>) : t \in Vocab }
    /\ stopping_criteria \in { StoppingCriteriaInit(config_eos), CustomCriteria }
    /\ fn_in = NoCall
    /\ fn_out = NoCall

Called(op, arg, token, r, value) ==
    /\ fn_in' = [op |-> op, arg |-> arg, token |-> token,
                 sc |-> stopping_criteria, cfg |-> config_eos]
    /\ fn_out' = [op |-> op, err |-> r.err, value |-> value]
    /\ stopping_criteria' = r.sc
    /\ config_eos' = r.cfg
    /\ UNCHANGED << pc, session_vars_but_tok >>

ScReset(arg) ==
    /\ pc = "criteria"
    /\ Called("reset", arg, None, ResetArg(stopping_criteria, config_eos, arg), FALSE)

ScAdd(arg) ==
    /\ pc = "criteria"
    /\ Len(stopping_criteria.eos) + Len(arg.toks) <= MaxEos
    /\ Called("add_eos_token_ids", arg, None,
              AddEosArg(stopping_criteria, config_eos, arg), FALSE)

ScCall(token) ==
    /\ pc = "criteria"
    /\ Called("call", NoArg, Some(token),
              [err |-> "", sc |-> stopping_criteria, cfg |-> config_eos],
              IsStop(stopping_criteria, token))

NextStop ==
    \/ \E arg \in ResetArgs : ScReset(arg)
    \/ \E arg \in AddArgs : ScAdd(arg)
    \/ \E token \in Vocab : ScCall(token)

SpecStop == InitStop /\ [][NextStop]_vars

\* C12: reset(ids) makes the active set exactly ids (an int becomes a
\* one-element list) whatever was added before, reset() makes it the model's
\* configured EOS ids, and calling the criteria is a membership test that
\* changes nothing.
C12_ResetReplacesActiveSet ==
    /\ fn_in.op = "reset" =>
          /\ fn_out.err = ""
          /\ stopping_criteria.eos =
                IF fn_in.arg.form = "none" THEN fn_in.cfg.ids
                ELSE Ids(fn_in.arg.toks)
    /\ fn_in.op = "call" =>
          /\ fn_out.value = (\E i \in 1..Len(fn_in.sc.eos) :
                                fn_in.sc.eos[i] = fn_in.token[1])
          /\ stopping_criteria = fn_in.sc
          /\ config_eos = fn_in.cfg

\* the parts of C12 about reset(ids) and the call alone
C12_ResetWithIds ==
    /\ (fn_in.op = "reset" /\ fn_in.arg.form # "none") =>
          /\ fn_out.err = ""
          /\ stopping_criteria.eos = Ids(fn_in.arg.toks)
    /\ fn_in.op = "call" =>
          /\ fn_out.value = (\E i \in 1..Len(fn_in.sc.eos) :
                                fn_in.sc.eos[i] = fn_in.token[1])
          /\ stopping_criteria = fn_in.sc
          /\ config_eos = fn_in.cfg

\* reset() on a criteria that holds no tokenizer does not fail
C12_DefaultResetNoTokenizer ==
    (fn_in.op = "reset" /\ fn_in.arg.form = "none" /\ ~fn_in.sc.tok)
       => fn_out.err = ""

\* reset() on a criteria that holds a tokenizer restores the configured ids
C12_DefaultResetWithTokenizer ==
    (fn_in.op = "reset" /\ fn_in.arg.form = "none" /\ fn_in.sc.tok)
       => stopping_criteria.eos = fn_in.cfg.ids

\* C13: add_eos_token_ids accepts an int, a str or a list of ints and strs;
\* afterwards the active set is the set before plus the id of every element
\* (for a string the last id of the encoding of " " + string); None changes
\* nothing.
C13_AddAcceptsIntsAndStrings ==
    (fn_in.op = "add_eos_token_ids" /\ fn_in.sc.tok) =>
       /\ fn_out.err = ""
       /\ Range(stopping_criteria.eos) =
             Range(fn_in.sc.eos) \cup Range(Ids(fn_in.arg.toks))
       /\ fn_in.arg.form = "none" => stopping_criteria = fn_in.sc

\* C13 for arguments without an integer: None, a string, a list of strings
C13_AddStrings ==
    (/\ fn_in.op = "add_eos_token_ids"
     /\ fn_in.sc.tok
     /\ \A i \in 1..Len(fn_in.arg.toks) : fn_in.arg.toks[i].ty = "str") =>
       /\ fn_out.err = ""
       /\ stopping_criteria.eos = fn_in.sc.eos \o Ids(fn_in.arg.toks)
       /\ fn_in.arg.form = "none" => stopping_criteria = fn_in.sc

(* ======================================================================= *)
(*         stream_generate with any consumer and a model that fails        *)
(* ======================================================================= *)
\* the wired limits a device may have before the session
WiredLimits == {"old", "user"}

\* the stopping options of a call, eos_tokens together with an invalid
\* stopping_criteria included
StreamOptions == CallOptions \cup { Option(TRUE, <<StrTok(0)>>, "invalid") }

InitStream ==
    /\ input_ids \in Prompts
    /\ max_tokens \in 0..MaxTokens
    /\ repetition_penalty = NonePenalty
    /\ repetition_context_size = None
    /\ verbose = FALSE
    /\ option \in StreamOptions
    /\ family = "decoder_only"
    /\ skip_special_token_ids \in { {}, {0} }
    /\ wired \in { NewWired(l) : l \in WiredLimits }
    /\ config_eos \in { IntConfig(MaxTok), ListConfig(<<MaxTok>>), ListConfig(<<>>) }
    /\ stopping_criteria = StoppingCriteriaInit(config_eos)
    /\ InitRun

\* the consumer stops iterating after a yielded record and closes the
\* stream: GeneratorExit is raised at the yield and the scope is left
ConsumerClose ==
    /\ pc \in {"resume", "cleanup"}
    /\ wired' = WiredExit(wired)
    /\ pc' = "closed"
    /\ UNCHANGED << fn_vars, inputs, tok_vars, err, gs_vars, sg_vars, g_vars >>

\* the model raises in a forward pass, at prefill or inside the loop
ModelFails ==
    /\ \/ pc = "prefill"
       \/ pc = "loop" /\ n # max_tokens
    /\ err' = "ModelError"
    /\ gen' = "raised"
    /\ pc' = "unwind"
    /\ UNCHANGED << fn_vars, inputs, tok_vars, cache, forwards, sampled, fed, kwargs,
                    repetition_context, y, logprobs, next_y, next_logprobs, n,
                    yielded, clears, sg_vars, g_vars, wired >>

NextStream ==
    \/ Next
    \/ ConsumerClose
    \/ ModelFails

SpecStream == InitStream /\ [][NextStream]_vars

\* C14: a stopping_criteria that is neither a StoppingCriteria nor a
\* callable makes generate raise ValueError before any generation step and
\* leaves the installed criteria unchanged, whatever else the call passes.
C14_InvalidCriteriaAlwaysRejected ==
    (option.stopping_criteria = "invalid" /\ pc # "generate") =>
       /\ pc = "raised"
       /\ err = "ValueError"
       /\ forwards.prefill = 0
       /\ stopping_criteria.kind = "criteria"
       /\ stopping_criteria.eos \in { <<MaxTok>>, <<>> }

\* C14 for calls that do not pass eos_tokens
C14_InvalidCriteriaAlone ==
    (option.stopping_criteria = "invalid" /\ ~option.eos_given /\ pc # "generate") =>
       /\ pc = "raised"
       /\ err = "ValueError"
       /\ forwards.prefill = 0
       /\ stopping_criteria.kind = "criteria"
       /\ stopping_criteria.eos \in { <<MaxTok>>, <<>> }

\* the session has left the wired_limit scope
ScopeLeft ==
    \/ pc \in {"return", "done", "closed"}
    \/ pc = "raised" /\ wired.events # <<>>

\* C15: on every exit path of a streaming session the generation stream is
\* synchronized first and only then is the wired limit set back to the
\* value it had before the session entered the scope.
C15_SynchronizeBeforeRestore ==
    /\ Len(wired.events) \in {0, 1, 3}
    /\ Len(wired.events) >= 1 =>
          /\ wired.events[1].op = "set_wired_limit"
          /\ wired.events[1].previous \in WiredLimits
    /\ Len(wired.events) = 1 => ~ScopeLeft /\ wired.limit = wired.events[1].value
    /\ Len(wired.events) = 3 =>
          /\ ScopeLeft
          /\ wired.events[2].op = "synchronize"
          /\ wired.events[3].op = "set_wired_limit"
          /\ wired.events[3].value = wired.events[1].previous
          /\ wired.limit = wired.events[1].previous
    /\ ScopeLeft => Len(wired.events) = 3

\* the other exit paths: budget exhaustion, stop token, a failing model
C15_WitnessExhausted ==
    pc = "done" /\ gen = "exhausted" /\ ~Stopped /\ Len(wired.events) = 3

\* the consumer closes the stream after the second record of a session
\* that started with the limit "user"
C15_Witness ==
    /\ pc = "closed"
    /\ Len(records) = 2
    /\ wired.limit = "user"
    /\ Len(wired.events) = 3

C15_WitnessStopped == pc = "done" /\ Stopped /\ Len(wired.events) = 3
C15_WitnessModelFails ==
    pc = "raised" /\ err = "ModelError" /\ Len(records) >= 1 /\ Len(wired.events) = 3

(* ======================================================================= *)
(*                     process_inputs_with_fallback                        *)
(* ======================================================================= *)
\* the tensor representations a caller may request
Representations == {"mlx", "np", "pt"}

\* a processor: whether its process method takes `audio`, and for every
\* representation whether the method returns or raises
Processors ==
    { [audio |-> a, works |-> w] :
         a \in BOOLEAN, w \in [Representations -> BOOLEAN] }

Raised(kind, rep) == [ok |-> FALSE, kind |-> kind, rep |-> rep]
Returned(rep) == [ok |-> TRUE, kind |-> "inputs", rep |-> rep]

\* process_inputs: one attempt with one representation
process_inputs(processor, audio, return_tensors) ==
    IF audio /\ ~processor.audio
    THEN Raised("ValueError", return_tensors)
    ELSE IF processor.works[return_tensors]
    THEN Returned(return_tensors)
    ELSE Raised("ProcessorError", return_tensors)

\* process_inputs_with_fallback: the attempts made, the value returned or
\* the ValueError raised, and the errors its message names
process_inputs_with_fallback(processor, audio, return_tensors) ==
    LET first == process_inputs(processor, audio, return_tensors)
    IN IF first.ok
       THEN [calls |-> <<return_tensors>>, raised |-> FALSE,
             value |-> first, names |-> {}]
       ELSE IF return_tensors # "pt"
       THEN LET second == process_inputs(processor, audio, "pt")
            IN IF second.ok
               THEN [calls |-> <<return_tensors, "pt">>, raised |-> FALSE,
                     value |-> second, names |-> {}]
               ELSE [calls |-> <<return_tensors, "pt">>, raised |-> TRUE,
                     value |-> Raised("ValueError", "pt"), names |-> {second}]
       ELSE [calls |-> <<return_tensors>>, raised |-> TRUE,
             value |-> Raised("ValueError", "pt"), names |-> {first}]

InitFallback ==
    /\ InitIdle
    /\ InitLoaded
    /\ pc = "fallback"
    /\ \E processor \in Processors, audio \in BOOLEAN, r \in Representations :
          fn_in = [op |-> "process_inputs_with_fallback", processor |-> processor,
                   audio |-> audio, return_tensors |-> r]
    /\ fn_out = NoCall

ProcessWithFallback ==
    /\ pc = "fallback"
    /\ fn_out' = process_inputs_with_fallback(
                    fn_in.processor, fn_in.audio, fn_in.return_tensors)
    /\ pc' = "fallback_done"
    /\ UNCHANGED << fn_in, session_vars >>

NextFallback == ProcessWithFallback

SpecFallback == InitFallback /\ [][NextFallback]_vars

\* what an attempt with representation rep does, stated from the inputs
AttemptFails(rep) ==
    (fn_in.audio /\ ~fn_in.processor.audio) \/ ~fn_in.processor.works[rep]
AttemptError(rep) ==
    [ok |-> FALSE,
     kind |-> IF fn_in.audio /\ ~fn_in.processor.audio THEN "ValueError"
              ELSE "ProcessorError",
     rep |-> rep]

\* the part of C16 about the attempts and the returned value
C16_AttemptsAndResult ==
    pc = "fallback_done" =>
      LET req == fn_in.return_tensors
          retry == AttemptFails(req) /\ req # "pt"
      IN /\ fn_out.calls = IF retry THEN <<req, "pt">> ELSE <<req>>
         /\ ~AttemptFails(req) =>
               ~fn_out.raised /\ fn_out.value = [ok |-> TRUE, kind |-> "inputs", rep |-> req]
         /\ (retry /\ ~AttemptFails("pt")) =>
               ~fn_out.raised /\ fn_out.value = [ok |-> TRUE, kind |-> "inputs", rep |-> "pt"]
         /\ (AttemptFails(req) /\ (req = "pt" \/ AttemptFails("pt"))) =>
               fn_out.raised /\ fn_out.value.kind = "ValueError"

\* C16: at most two attempts, the second only after a failed first attempt
\* with a representation other than 'pt'; a successful attempt's result is
\* returned unchanged; when the fallback fails too, the error raised names
\* both the primary error and the fallback error.
C16_FallbackNamesBothErrors ==
    /\ C16_AttemptsAndResult
    /\ (/\ pc = "fallback_done"
        /\ fn_in.return_tensors # "pt"
        /\ AttemptFails(fn_in.return_tensors)
        /\ AttemptFails("pt")) =>
          fn_out.names = {AttemptError(fn_in.return_tensors), AttemptError("pt")}

\* the tokens of the step records, in order: the tokens emitted so far
EmittedTokens == [i \in 1..StepCount(Len(records)) |-> records[i].token]

\* decode of a token sequence in one shot: the text of every token that is
\* not skipped, in order
RECURSIVE Decode(_, _)
Decode(toks, skip) ==
    IF toks = <<>> THEN <<>>
    ELSE LET k == Len(toks)
             head == Decode(SubSeq(toks, 1, k - 1), skip)
         IN IF toks[k] \in skip THEN head ELSE Append(head, toks[k])

IsPrefix(a, b) == Len(a) <= Len(b) /\ a = SubSeq(b, 1, Len(a))

\* C17: the text deltas of the step records and of the finalize record, in
\* order, concatenate to the one-shot decode of the emitted tokens that are
\* not skipped; no record repeats text of an earlier record.
C17_TextRoundTrip ==
    /\ IsPrefix(ConcatText(records), Decode(EmittedTokens, skip_special_token_ids))
    /\ FinalCount = 1 =>
          ConcatText(records) = Decode(EmittedTokens, skip_special_token_ids)

\* three tokens emitted, text flushed by the finalize record
C17_Witness ==
    /\ pc = "done"
    /\ skip_special_token_ids = {}
    /\ Len(EmittedTokens) = 3
    /\ records[4].kind = "final"
    /\ records[4].text # <<>>
    /\ ConcatText(records) = EmittedTokens

\* a session in which every emitted token is skipped
C17_WitnessSkipped ==
    /\ pc = "done"
    /\ skip_special_token_ids = {0}
    /\ EmittedTokens = <<0, 0>>
    /\ ConcatText(records) = <<>>

\* the detokenizer calls of the session, by operation
LogOps == [i \in 1..Len(detok_log) |-> detok_log[i].op]
LogCount(op) == Cardinality({ i \in 1..Len(detok_log) : detok_log[i].op = op })

\* the session ran to budget exhaustion or to a stop token
RanToEnd == pc \in {"yield_final", "cleanup", "return", "done"}
               \/ (pc \in {"unwind", "raised", "closed"} /\ LogCount("finalize") > 0)

\* C18: the detokenizer gets reset once before any add_token, add_token once
\* per emitted token in production order, then finalize once, after the
\* last add_token and before the finalize record is yielded.
C18_DetokenizerProtocol ==
    /\ pc \notin {"generate", "stream_generate"} /\ (pc = "raised" => wired.events # <<>>)
          => /\ Len(detok_log) >= 1
             /\ detok_log[1].op = "reset"
    /\ LogCount("reset") <= 1
    /\ LogCount("finalize") <= 1
    /\ \A i \in 1..Len(detok_log) :
          /\ detok_log[i].op = "add_token" =>
                /\ detok_log[i].token = Some(sampled[i - 1])
                /\ \A j \in 1..(i - 1) : detok_log[j].op # "finalize"
          /\ detok_log[i].op = "finalize" => i = Len(detok_log)
    /\ LogCount("add_token") =
          Len(EmittedTokens) + (IF pc = "yield_result" THEN 1 ELSE 0)
    /\ \A i \in 1..Len(EmittedTokens) : detok_log[i + 1].token = Some(EmittedTokens[i])
    /\ RanToEnd => LogCount("finalize") = 1
    /\ pc = "yield_final" => FinalCount = 0
    /\ FinalCount = 1 => LogCount("finalize") = 1

C18_Witness ==
    /\ pc = "done"
    /\ LogOps = <<"reset", "add_token", "add_token", "finalize">>
    /\ Stopped

\* C19: the i-th pair generate_step yields is the i-th token sampled in the
\* session with the logprobs of the pass that produced it; every decode
\* iteration makes exactly one forward pass, over the token about to be
\* yielded, before that token is yielded.
C19_StrictSamplingOrder ==
    /\ Len(sampled) = forwards.prefill + forwards.decode
    /\ forwards.prefill <= 1
    /\ forwards.decode <= yielded + 1
    /\ sg.token # None =>
          /\ sg.n[1] + 1 <= yielded
          /\ sg.token[1] = sampled[sg.n[1] + 1]
          /\ sg.logprobs[1] = sg.n[1] + 1
    /\ pc = "stop_check" => sg.n[1] + 1 = yielded
    /\ pc = "yield" =>
          /\ forwards.decode = yielded + 1
          /\ y[1] = sampled[yielded + 1]
          /\ logprobs[1] = yielded + 1
          /\ fed = y
    /\ (pc = "loop" /\ forwards.prefill = 1) => forwards.decode = yielded
    /\ \A i \in 1..Len(records) :
          records[i].kind = "step" =>
             records[i].token = sampled[i] /\ records[i].logprobs = i

\* the third pair yielded differs from the token sampled after it
C19_Witness ==
    /\ pc = "stop_check"
    /\ sg.n = Some(2)
    /\ sampled = <<0, 0, 1, 0>>
    /\ sg.token = Some(1)
    /\ forwards.decode = 3

\* C20: with a repetition penalty configured, the context of every penalty
\* application is the last repetition_context_size elements of the prompt
\* ids followed by every token sampled so far, the one sampled at prefill
\* included.
C20_ContextIncludesFirstToken ==
    (/\ pc = "loop"
     /\ n # max_tokens
     /\ Truthy(repetition_penalty)
     /\ SizeSet) =>
       repetition_context = LastK(input_ids \o sampled, repetition_context_size[1])

\* what the context is instead: the tokens sampled by _step, not the one
\* sampled at prefill
C20_ContextWithoutFirstToken ==
    (/\ pc = "loop"
     /\ n # max_tokens
     /\ Truthy(repetition_penalty)
     /\ SizeSet) =>
       repetition_context =
          LastK(input_ids \o SubSeq(sampled, 2, Len(sampled)),
                repetition_context_size[1])

(* ======================================================================= *)
(*            generate_step over every prefill output of a model           *)
(* ======================================================================= *)
InitConvention ==
    /\ input_ids \in Prompts
    /\ max_tokens \in 0..MaxTokens
    /\ repetition_penalty = NonePenalty
    /\ repetition_context_size = None
    /\ verbose = FALSE
    /\ option = Option(FALSE, <<>>, "none")
    /\ family \in AllFamilies
    /\ skip_special_token_ids = {}
    /\ wired = NewWired("old")
    /\ config_eos \in { ListConfig(<<MaxTok>>), ListConfig(<<>>) }
    /\ stopping_criteria = StoppingCriteriaInit(config_eos)
    /\ InitRun

SpecConvention == InitConvention /\ [][Next]_vars

\* the convention the prefill output calls for
ExpectedConvention ==
    IF family \in {"cross_attention", "both"} THEN "cross_attention"
    ELSE IF family = "encoder_decoder" THEN "encoder_decoder"
    ELSE "decoder_only"

C21_ConventionState ==
    /\ kwargs.convention = "unset" <=> forwards.prefill = 0
    /\ forwards.prefill <= 1
    /\ kwargs.convention # "unset" =>
          /\ kwargs.convention = ExpectedConvention
          /\ kwargs.cross_attention_states =
                (IF ExpectedConvention = "cross_attention" THEN <<1>> ELSE <<>>)
          /\ kwargs.encoder_outputs =
                (IF ExpectedConvention = "encoder_decoder" THEN <<1>> ELSE <<>>)
          /\ IF ExpectedConvention = "encoder_decoder"
             THEN kwargs.decoder_input_ids = <<sampled[Len(sampled)]>>
             ELSE kwargs.decoder_input_ids = <<>>
    /\ (pc = "yield" /\ ExpectedConvention = "encoder_decoder") =>
          fed = <<sampled[Len(sampled) - 1]>>

C21_ConventionKept ==
    kwargs.convention # "unset" =>
       /\ kwargs'.convention = kwargs.convention
       /\ kwargs'.cross_attention_states = kwargs.cross_attention_states
       /\ kwargs'.encoder_outputs = kwargs.encoder_outputs

\* C21: the call convention is chosen once, from the prefill output (cross-
\* attention state first, then encoder output, else decoder-only) and never
\* changes; the side state every decode step gets is the one of the prefill
\* pass, and in the encoder-decoder convention the decoder input of a decode
\* step is the most recently sampled token.
C21_CallConvention == []C21_ConventionState /\ [][C21_ConventionKept]_vars

\* a prefill output with both side states, two decode steps later
C21_Witness ==
    /\ family = "both"
    /\ kwargs.convention = "cross_attention"
    /\ forwards.decode = 2

C21_WitnessEncoderDecoder ==
    /\ family = "encoder_decoder"
    /\ pc = "yield"
    /\ sampled = <<0, 1, 0>>
    /\ fed = <<1>>

(* ======================================================================= *)
(*                  generate_step over long token budgets                  *)
(* ======================================================================= *)
\* most releases of scratch memory a session of the model can reach
MaxClears == 2

\* budgets at, just below and just above the multiples of ClearEvery
LongBudgets ==
    { b \in { k * ClearEvery + d : k \in 0..MaxClears, d \in {-1, 0, 1} } : b >= 0 }

\* every id but 0 is an EOS id, so a session runs on exactly while it
\* samples 0
InitClear ==
    /\ input_ids = <<0>>
    /\ max_tokens \in LongBudgets
    /\ repetition_penalty = NonePenalty
    /\ repetition_context_size = None
    /\ verbose = FALSE
    /\ option = Option(FALSE, <<>>, "none")
    /\ family = "decoder_only"
    /\ skip_special_token_ids = {}
    /\ wired = NewWired("old")
    /\ config_eos = ListConfig([i \in 1..MaxTok |-> i])
    /\ stopping_criteria = StoppingCriteriaInit(config_eos)
    /\ InitRun

SpecClear == InitClear /\ [][Next]_vars

\* n counts the tokens the loop has produced and been resumed after
C22_ClearState ==
    /\ clears = n \div 50
    /\ n < 50 => clears = 0
    /\ gen = "exhausted" => (n = max_tokens /\ clears = max_tokens \div 50)
    /\ n <= yielded /\ yielded <= n + 1

C22_ClearStep ==
    clears' # clears =>
       /\ clears' = clears + 1
       /\ n' = n + 1
       /\ n' % 50 = 0
       /\ cache' = cache
       /\ sampled' = sampled
       /\ yielded' = yielded
       /\ records' = records

\* C22: inside the decoding loop scratch memory is released exactly when
\* the count of produced tokens reaches a positive multiple of 50, so never
\* before the 50th token and floor(max_tokens / 50) times in a run to
\* exhaustion; a release changes neither the yielded tokens nor the KV cache.
C22_ClearEveryFifty == []C22_ClearState /\ [][C22_ClearStep]_vars

\* a run to exhaustion of 100 tokens with its two releases
C22_Witness ==
    /\ gen = "exhausted"
    /\ max_tokens = 100
    /\ clears = 2
    /\ yielded = 100

C22_WitnessBelow == gen = "exhausted" /\ max_tokens = 49 /\ clears = 0

\* C23: no record stream_generate yields, the finalize record included,
\* carries a token (or the logprobs of a token) the stopping criteria
\* accepted.
C23_NoRecordCarriesStopToken ==
    \A i \in 1..Len(records) :
       /\ ~IsStop(stopping_criteria, records[i].token)
       /\ ~IsStop(stopping_criteria, sampled[records[i].logprobs])

\* C23 for the step records alone
C23_NoStepRecordCarriesStopToken ==
    \A i \in 1..Len(records) :
       records[i].kind = "step" =>
          /\ ~IsStop(stopping_criteria, records[i].token)
          /\ ~IsStop(stopping_criteria, sampled[records[i].logprobs])

(* ======================================================================= *)
(*             several generate() calls on one loaded tokenizer            *)
(* ======================================================================= *)
\* most generate() calls in one behaviour
MaxCalls == 3

\* fn_in holds the options of the calls already made and
\* model.config.eos_token_id as load() found it
InitCalls ==
    /\ input_ids = <<0>>
    /\ max_tokens \in 0..1
    /\ repetition_penalty = NonePenalty
    /\ repetition_context_size = None
    /\ verbose = FALSE
    /\ option \in CallOptions
    /\ family = "decoder_only"
    /\ skip_special_token_ids = {}
    /\ wired = NewWired("old")
    /\ config_eos \in { IntConfig(MaxTok), ListConfig(<<MaxTok>>) }
    /\ stopping_criteria = StoppingCriteriaInit(config_eos)
    /\ pc = "generate"
    /\ InitLocals
    /\ fn_in = [op |-> "generate", history |-> <<>>, loaded |-> config_eos]
    /\ fn_out = NoCall

\* the caller makes another generate() call after one has returned or
\* raised: the tokenizer, its criteria and the model's config live on, the
\* locals of the call are new
NextCall(opt) ==
    /\ pc \in {"done", "raised"}
    /\ Len(fn_in.history) + 1 < MaxCalls
    /\ fn_in' = [fn_in EXCEPT !.history = Append(@, option)]
    /\ option' = opt
    /\ pc' = "generate"
    /\ wired' = NewWired(wired.limit)
    /\ err' = ""
    /\ cache' = None
    /\ forwards' = [prefill |-> 0, decode |-> 0]
    /\ sampled' = <<>>
    /\ fed' = <<>>
    /\ kwargs' = [convention |-> "unset", decoder_input_ids |-> None,
                  cross_attention_states |-> None, encoder_outputs |-> None]
    /\ repetition_context' = <<>>
    /\ y' = None /\ logprobs' = None
    /\ next_y' = None /\ next_logprobs' = None
    /\ n' = 0
    /\ gen' = "unstarted"
    /\ yielded' = 0
    /\ clears' = 0
    /\ sg' = [n |-> None, token |-> None, logprobs |-> None]
    /\ detok_log' = <<>>
    /\ records' = <<>>
    /\ text' = <<>>
    /\ last_response' = None
    /\ ret' = [kind |-> "unset"]
    /\ UNCHANGED << fn_out, input_ids, max_tokens, repetition_penalty,
                    repetition_context_size, verbose, family,
                    skip_special_token_ids, tok_vars, detokenizer >>

NextCalls ==
    \/ Next
    \/ \E opt \in CallOptions : NextCall(opt)

SpecCalls == InitCalls /\ [][NextCalls]_vars

\* the current call passes neither eos_tokens nor stopping_criteria and is
\* past the stopping set-up at its head
PlainCallPastHead ==
    /\ option = Option(FALSE, <<>>, "none")
    /\ pc # "generate"

\* every earlier call passed eos_tokens
OnlyEosCallsBefore ==
    /\ fn_in.history # <<>>
    /\ \A i \in 1..Len(fn_in.history) : fn_in.history[i].eos_given

\* C24: adding EOS ids never alters the model's configured EOS ids: after
\* any sequence of calls that pass eos_tokens, a call that passes neither
\* option runs with the EOS ids of load time, for an int and for a list.
C24_PlainCallRestoresLoadedIds ==
    (PlainCallPastHead /\ OnlyEosCallsBefore) =>
       /\ Range(stopping_criteria.eos) = Range(fn_in.loaded.ids)
       /\ config_eos = fn_in.loaded

\* C24 for a model whose configured EOS id is a single integer
C24_PlainCallRestoresLoadedInt ==
    (PlainCallPastHead /\ OnlyEosCallsBefore /\ fn_in.loaded.isint) =>
       /\ stopping_criteria.eos = fn_in.loaded.ids
       /\ config_eos = fn_in.loaded

\* C25: after earlier calls with any mix of options, a call that passes
\* neither option resets the criteria to the model's configured EOS ids and
\* goes on to generate without raising.
C25_PlainCallResetsAndRuns ==
    PlainCallPastHead =>
       /\ ~(pc = "raised" /\ forwards.prefill = 0)
       /\ stopping_criteria.kind = "criteria"
       /\ stopping_criteria.eos = config_eos.ids

\* C25 when no earlier call installed a plain callable
C25_PlainCallAfterNoCallable ==
    (/\ PlainCallPastHead
     /\ \A i \in 1..Len(fn_in.history) :
           fn_in.history[i].stopping_criteria # "callable") =>
       /\ ~(pc = "raised" /\ forwards.prefill = 0)
       /\ stopping_criteria.kind = "criteria"
       /\ stopping_criteria.eos = config_eos.ids

====
